---- MODULE Spec2Model ----
(***************************************************************************)
(* A model of mellon's token store (src/src/tokens) and of its hand-rolled *)
(* listener (src/src/simple_server.rs).                                    *)
(*                                                                         *)
(* Strings are TLA+ strings; a character is a string of length one, and    *)
(* lengths count characters, which are bytes for the ASCII inputs used.    *)
(* Option<T> is a set with at most one element: None is {} and Some(v) is  *)
(* {v}.  A HashMap<String, Token> is the set of its values, the tokens     *)
(* <<label, secret>>: the code only ever inserts a token under its own     *)
(* label, so the key is the first component and keys are unique.           *)
(***************************************************************************)
EXTENDS FiniteSets, Integers, Sequences, TLC

VARIABLES
    file,          \* the backing file at file_path: [kind, content, room]
    constructed,   \* TokenStore::new has returned Ok(token_store)
    tokens,        \* TokenStore.tokens: Option<HashMap<String, Token>>
    token_lookup,  \* TokenStore.token_lookup: Option<HashSet<String>>
    last,          \* the call made last, its result and the state it started in
    server,        \* the serving process: its listener and the connection it holds
    admins         \* the administrative processes, each with a store of its own

vars == <<file, constructed, tokens, token_lookup, last, server, admins>>

----------------------------------------------------------------------------
(* Bounds and inputs *)

\* The most tokens a store is grown to by create.
MaxTokens == 2

\* The changes the environment makes to the file while a call of the store
\* runs.
MaxDisturbances == 1

\* Two values of Uuid::new_v4().to_string().
Uuid1 == "11111111-1111-4111-8111-111111111111"
Uuid2 == "22222222-2222-4222-8222-222222222222"
UuidInputs == {Uuid1, Uuid2}

\* Labels handed to create and rescind.
LabelInputs == {"a", "b", "d\ne"}

----------------------------------------------------------------------------
(* Option and Result *)

None == {}
Some(v) == {v}
Unwrap(o) == CHOOSE v \in o : TRUE

Ok(v) == [ok |-> TRUE, val |-> v]
Err == [ok |-> FALSE, val |-> ""]

----------------------------------------------------------------------------
(* str *)

Char(s, i) == SubSeq(s, i, i)

\* The index of the first occurrence of the character c in s, 0 when absent.
Find(s, c) ==
    IF \E i \in 1..Len(s) : Char(s, i) = c
    THEN CHOOSE i \in 1..Len(s) :
            /\ Char(s, i) = c
            /\ \A j \in 1..(i - 1) : Char(s, j) # c
    ELSE 0

\* The index of the last occurrence of the character c in s, 0 when absent.
FindLast(s, c) ==
    IF \E i \in 1..Len(s) : Char(s, i) = c
    THEN CHOOSE i \in 1..Len(s) :
            /\ Char(s, i) = c
            /\ \A j \in (i + 1)..Len(s) : Char(s, j) # c
    ELSE 0

\* The characters with the Unicode property White_Space that a string of
\* the model can hold: U+0009 to U+000D, U+0020, U+0085 and U+00A0 (the
\* others, U+1680, U+2000 to U+200A, U+2028, U+2029, U+202F, U+205F and
\* U+3000, cannot be written in a TLA+ string).
White_Space == {"\t", "\n", "", "\f", "\r", " ", "", " "}

\* char::is_whitespace.
IsWhitespace(c) == c \in White_Space

Min(a, b) == IF a < b THEN a ELSE b

\* str::trim: s without its leading and trailing whitespace.
trim(s) ==
    IF \A i \in 1..Len(s) : IsWhitespace(Char(s, i))
    THEN ""
    ELSE LET first == CHOOSE i \in 1..Len(s) :
                        /\ ~IsWhitespace(Char(s, i))
                        /\ \A j \in 1..(i - 1) : IsWhitespace(Char(s, j))
             lastc == CHOOSE i \in 1..Len(s) :
                        /\ ~IsWhitespace(Char(s, i))
                        /\ \A j \in (i + 1)..Len(s) : IsWhitespace(Char(s, j))
         IN  SubSeq(s, first, lastc)

\* str::strip_prefix: Some(rest) when s starts with prefix.
strip_prefix(s, prefix) ==
    IF Len(s) >= Len(prefix) /\ SubSeq(s, 1, Len(prefix)) = prefix
    THEN Some(SubSeq(s, Len(prefix) + 1, Len(s)))
    ELSE None

\* One line as BufRead::lines yields it: a line that ended in "\n" loses a
\* "\r" before it.
StripCR(s) ==
    IF Len(s) > 0 /\ Char(s, Len(s)) = "\r" THEN SubSeq(s, 1, Len(s) - 1) ELSE s

\* BufRead::lines over the whole content: the lines between "\n"s, the last
\* one also when no "\n" ends it.
RECURSIVE Lines(_)
Lines(c) ==
    IF c = "" THEN <<>>
    ELSE LET i == Find(c, "\n") IN
         IF i = 0 THEN <<c>>
         ELSE <<StripCR(SubSeq(c, 1, i - 1))>> \o Lines(SubSeq(c, i + 1, Len(c)))

----------------------------------------------------------------------------
(* Token: src/src/tokens/token.rs *)

Token(label, secret) == <<label, secret>>

\* Mutant of from_str: the line is split at its last ':'.
from_str_last_colon(s) ==
    IF Find(s, ":") = 0 THEN Err
    ELSE LET i == CHOOSE k \in 1..Len(s) :
                    /\ Char(s, k) = ":"
                    /\ \A j \in (k + 1)..Len(s) : Char(s, j) # ":"
         IN  Ok(Token(trim(SubSeq(s, 1, i - 1)), trim(SubSeq(s, i + 1, Len(s)))))
\* impl FromStr for Token: splitn(2, ':'), both parts trimmed.
from_str(s) ==
    LET i == Find(s, ":") IN
    IF i = 0 THEN Err
    ELSE Ok(Token(trim(SubSeq(s, 1, i - 1)), trim(SubSeq(s, i + 1, Len(s)))))

\* Mutant of fmt: a space is written where the ':' belongs.
fmt_space(token) == <<token[1], " ", token[2]>>
\* impl Display for Token: the strings write!(f, "{}:{}", self.0, self.1)
\* hands to the formatter, one after the other.
fmt(token) == <<token[1], ":", token[2]>>
\* The text a Token is displayed as.
to_string(token) == fmt(token)[1] \o fmt(token)[2] \o fmt(token)[3]

----------------------------------------------------------------------------
(* HashMap<String, Token> as the set of its values *)

\* Mutant of contains_key: no key is ever found.
contains_key_never(token_map, key) == FALSE
contains_key(token_map, key) == \E t \in token_map : t[1] = key
\* Mutant of insert: the new token replaces the whole map.
insert_clobber(token_map, token) == {token}
insert(token_map, token) == {t \in token_map : t[1] # token[1]} \cup {token}
\* Mutant of remove: every token sharing the secret of the removed one goes too.
remove_by_secret(token_map, key) ==
    {t \in token_map : \A u \in token_map : u[1] = key => t[2] # u[2]}
remove(token_map, key) == {t \in token_map : t[1] # key}

----------------------------------------------------------------------------
(* The backing file *)

\* kind: "NoDir" (the parent directory is absent), "NotFound" (no file),
\* "Present" (a file that can be read and written), "ReadOnly", "WriteOnly"
\* or "Denied" (a file that can be neither read nor written); room: the
\* bytes the file can grow to before a write fails (a full disk, a quota,
\* a file size limit), None when nothing limits it.
FileWithRoom(kind, content, room) ==
    [kind |-> kind, content |-> content, room |-> room]
File(kind, content) == FileWithRoom(kind, content, None)

\* File::open succeeds, fails with NotFound, or fails otherwise.
CanOpen(f) == f.kind \in {"Present", "ReadOnly"}
IsNotFound(f) == f.kind \in {"NoDir", "NotFound"}
\* File::create succeeds; the file it leaves is empty.
CanCreate(f) == f.kind \in {"NotFound", "Present", "WriteOnly"}
Created(f) ==
    [f EXCEPT !.kind = IF f.kind = "WriteOnly" THEN "WriteOnly" ELSE "Present",
              !.content = ""]

FileInputs ==
    {File("NoDir", ""), File("NotFound", ""),
     File("Denied", "a:" \o Uuid1 \o "\n"),
     File("ReadOnly", "a:" \o Uuid1 \o "\n"),
     File("WriteOnly", "a:" \o Uuid1 \o "\n"),
     FileWithRoom("NotFound", "", Some(0)),
     FileWithRoom("Present", "a:" \o Uuid1 \o "\n", Some(3))}
    \cup {File("Present", c) : c \in
            {"a:" \o Uuid1 \o "\nb:" \o Uuid1 \o "\n",
             "a:" \o Uuid1 \o "\na:" \o Uuid2 \o "\n",
             " a : s 1 \r\n\fb:x:y\f",
             " a : s 1 \r\n\fb:x:y\fc:z\n",
             "a:" \o Uuid1 \o "\nbad\n",
             "b:" \o Uuid2 \o "\n\n"}}

----------------------------------------------------------------------------
(* TokenStore: src/src/tokens/token_store.rs *)

Store(toks, lookup) == [tokens |-> toks, token_lookup |-> lookup]
Self == Store(tokens, token_lookup)

\* Mutant of rebuild_token_lookup: token_lookup is left as it was.
rebuild_token_lookup_stale(self) ==
    IF self.tokens = None THEN [ok |-> FALSE, self |-> self]
    ELSE [ok |-> TRUE, self |-> self]
\* fn rebuild_token_lookup: the store with token_lookup rebuilt from tokens.
rebuild_token_lookup(self) ==
    IF self.tokens = None THEN [ok |-> FALSE, self |-> self]
    ELSE [ok |-> TRUE,
          self |-> [self EXCEPT
                      !.token_lookup = Some({t[2] : t \in Unwrap(self.tokens)})]]

\* Mutant of load_lines: a line that does not parse is skipped.
RECURSIVE load_lines_skip(_, _)
load_lines_skip(lines, token_map) ==
    IF lines = <<>> THEN Ok(token_map)
    ELSE LET token == from_str(Head(lines)) IN
         IF ~token.ok THEN load_lines_skip(Tail(lines), token_map)
         ELSE load_lines_skip(Tail(lines), insert(token_map, token.val))
\* The loop of reload: each line parsed and inserted into token_map, the
\* first line that does not parse ends it with an error.
RECURSIVE load_lines(_, _)
load_lines(lines, token_map) ==
    IF lines = <<>> THEN Ok(token_map)
    ELSE LET token == from_str(Head(lines)) IN
         IF ~token.ok THEN Err
         ELSE load_lines(Tail(lines), insert(token_map, token.val))

\* Mutant of reload: a missing file leaves the store as it was.
reload_keep(self, f, lines) ==
    IF IsNotFound(f)
    THEN [ok |-> TRUE, self |-> self]
    ELSE IF ~CanOpen(f)
    THEN [ok |-> FALSE, self |-> self]
    ELSE LET token_map == load_lines(lines, {}) IN
         IF ~token_map.ok THEN [ok |-> FALSE, self |-> self]
         ELSE rebuild_token_lookup([self EXCEPT !.tokens = Some(token_map.val)])
\* Mutant of reload: a failed load leaves the store not loaded.
reload_unloads(self, f, lines) ==
    IF IsNotFound(f)
    THEN [ok |-> TRUE, self |-> Store(Some({}), Some({}))]
    ELSE IF ~CanOpen(f)
    THEN [ok |-> FALSE, self |-> Store(None, None)]
    ELSE LET token_map == load_lines(lines, {}) IN
         IF ~token_map.ok THEN [ok |-> FALSE, self |-> Store(None, None)]
         ELSE rebuild_token_lookup([self EXCEPT !.tokens = Some(token_map.val)])
\* pub fn reload, f being the file File::open finds and lines what
\* reader.lines() yields when f was opened: [ok, self], self being the
\* store when the call returns.
reload(self, f, lines) ==
    IF IsNotFound(f)
    THEN [ok |-> TRUE, self |-> Store(Some({}), Some({}))]
    ELSE IF ~CanOpen(f)
    THEN [ok |-> FALSE, self |-> self]
    ELSE LET token_map == load_lines(lines, {}) IN
         IF ~token_map.ok THEN [ok |-> FALSE, self |-> self]
         ELSE rebuild_token_lookup([self EXCEPT !.tokens = Some(token_map.val)])
\* reload when nothing else touches the file from File::open to the read
\* that finds its end: the lines are those of the content of f.
reload_alone(self, f) == reload(self, f, Lines(f.content))

\* pub fn contains_token: Err when token_lookup is None.
contains_token(self, token_string) ==
    IF self.token_lookup = None THEN Err
    ELSE Ok(token_string \in Unwrap(self.token_lookup))

\* Every order tokens.values() can iterate in, each written as
\* writeln!(writer, "{}", token).
RECURSIVE Serializations(_)
Serializations(token_map) ==
    IF token_map = {} THEN {""}
    ELSE UNION {{to_string(t) \o "\n" \o rest : rest \in Serializations(token_map \ {t})}
                : t \in token_map}

\* Every order tokens.values() can iterate in.
RECURSIVE Orders(_)
Orders(token_map) ==
    IF token_map = {} THEN {<<>>}
    ELSE UNION {{<<t>> \o rest : rest \in Orders(token_map \ {t})}
                : t \in token_map}

\* The strs that writeln!(writer, "{}", token) hands to the writer's
\* write_all for the tokens of to_write: Display writes the label, ":" and
\* the secret, writeln! the "\n".
RECURSIVE write_strs(_)
write_strs(to_write) ==
    IF to_write = <<>> THEN <<>>
    ELSE fmt(Head(to_write)) \o <<"\n">> \o write_strs(Tail(to_write))

\* io::BufWriter::new(file): std's buffer of 8 KiB.
BufWriterCapacity == 8192

\* The writes that reach the file when strs are written through a BufWriter
\* holding buf: a str that does not fit beside buf makes the buffer be
\* flushed, a str as large as the buffer is written directly, and what is
\* left is flushed when the writer is dropped. kind says which: "flush",
\* "direct" or "drop".
RECURSIVE file_writes(_, _)
file_writes(strs, buf) ==
    IF strs = <<>>
    THEN (IF buf = "" THEN <<>> ELSE <<[data |-> buf, kind |-> "drop"]>>)
    ELSE LET s == Head(strs)
             spare == BufWriterCapacity - Len(buf)
         IN  IF Len(s) < spare THEN file_writes(Tail(strs), buf \o s)
             ELSE LET flushed == IF Len(s) > spare /\ buf # ""
                                 THEN <<[data |-> buf, kind |-> "flush"]>>
                                 ELSE <<>>
                      kept == IF Len(s) > spare THEN "" ELSE buf
                  IN  IF Len(s) >= BufWriterCapacity
                      THEN flushed \o <<[data |-> s, kind |-> "direct"]>>
                                   \o file_writes(Tail(strs), kept)
                      ELSE flushed \o file_writes(Tail(strs), kept \o s)

RECURSIVE Repeat(_, _)
Repeat(s, n) ==
    IF n = 0 THEN ""
    ELSE IF n % 2 = 1 THEN s \o Repeat(s, n - 1)
    ELSE LET half == Repeat(s, n \div 2) IN half \o half

\* Stands for the byte 0, which a string of the model cannot hold: like it,
\* it is no whitespace, no ':' and no line terminator.
NulByte == "~"

\* A write of data at offset of a file that holds content: a file shorter
\* than the offset, truncated by another process since, is filled up with
\* zero bytes.
WriteAt(content, offset, data) ==
    IF data = "" THEN content
    ELSE LET filled == IF Len(content) < offset
                       THEN content \o Repeat(NulByte, offset - Len(content))
                       ELSE content
             end == offset + Len(data)
         IN  SubSeq(filled, 1, offset) \o data \o
             (IF Len(filled) > end THEN SubSeq(filled, end + 1, Len(filled))
              ELSE "")

\* What a call that holds the file open still has to do. Inside
\* persist_to_file: writes, the writes its BufWriter will pass to the file;
\* failed, a write made for writeln! has failed and the call will return
\* its error; before, for a process beside others, the tokens a load of
\* the file gave when File::create was about to truncate it. Inside
\* reload: lines, the lines reader.lines() has yielded so far; partial, the
\* bytes read after them that no line terminator has followed yet. For
\* both: offset, where in the file the next write or read goes; orphan,
\* the content of the open file once it was removed from file_path, None
\* while it is the file there.
NoPending ==
    [writes |-> <<>>, failed |-> FALSE, offset |-> 0, before |-> None,
     lines |-> <<>>, partial |-> "", orphan |-> None]
\* The content of the file a call holds open.
OpenContent(f, pending) ==
    IF pending.orphan = None THEN f.content ELSE Unwrap(pending.orphan)

\* io::BufReader::new(file): std's buffer of 8 KiB.
BufReaderCapacity == 8192

\* The next read(2) of the BufReader of reload, made when the bytes read
\* before are used up: the bytes of the open file from offset on, as many
\* as the buffer takes, none at the end of the file.
file_read(f, pending) ==
    LET content == OpenContent(f, pending) IN
    SubSeq(content, pending.offset + 1,
           Min(Len(content), pending.offset + BufReaderCapacity))

\* A file that File::open has opened.
Opened == File("Present", "")
\* The bytes up to the last "\n", and those after it.
Terminated(bytes) == SubSeq(bytes, 1, FindLast(bytes, "\n"))
Unterminated(bytes) == SubSeq(bytes, FindLast(bytes, "\n") + 1, Len(bytes))

\* reload after File::open, one read(2) further. A read that gives bytes
\* completes the lines that end in them, what follows the last "\n" waits
\* for the next read. A read that gives none ends the line that waits,
\* which reader.lines() yields as it is before it reads again; with no
\* line waiting it ends the lines, and reload commits them. The loop parses
\* each line as it is yielded, and reload returns at the first that does
\* not parse. result is what reload returns on the lines yielded.
reload_reads(self, f, pending) ==
    LET got == file_read(f, pending)
        bytes == pending.partial \o got
        yielded == IF got = ""
                   THEN (IF pending.partial = "" THEN <<>>
                         ELSE <<pending.partial>>)
                   ELSE Lines(Terminated(bytes))
        after == [pending EXCEPT
                    !.offset = @ + Len(got),
                    !.lines = @ \o yielded,
                    !.partial = IF got = "" THEN "" ELSE Unterminated(bytes)]
        result == reload(self, Opened, after.lines)
    IN  [returns |-> ~result.ok \/ (got = "" /\ pending.partial = ""),
         pending |-> after, result |-> result]
\* persist_to_file after File::create, the tokens being iterated in the
\* order to_write.
Pending(to_write) ==
    [NoPending EXCEPT !.writes = file_writes(write_strs(to_write), "")]

\* The next write(2) of pending reaches the open file, at the offset the
\* writes before it have left: the file, which can grow to room bytes, takes
\* what fits; a file removed from file_path takes it out of sight. After a
\* write cut short, write_all and the flush of the BufWriter write the
\* rest. A write that nothing of fits fails: made when the BufWriter is
\* dropped, its error is discarded; made for writeln!, its error is what
\* persist_to_file returns, after the BufWriter, dropped with the bytes a
\* failed flush has left in it, has tried to write them again. With no
\* write left persist_to_file returns.
file_write(f, pending) ==
    IF pending.writes = <<>>
    THEN [file |-> f, pending |-> pending, returns |-> TRUE,
          ok |-> ~pending.failed]
    ELSE LET w == Head(pending.writes)
             fits == IF f.room = None THEN Len(w.data)
                     ELSE Min(Len(w.data),
                              IF Unwrap(f.room) > pending.offset
                              THEN Unwrap(f.room) - pending.offset
                              ELSE 0)
             written == WriteAt(OpenContent(f, pending), pending.offset,
                                SubSeq(w.data, 1, fits))
             left == IF fits = Len(w.data) THEN Tail(pending.writes)
                     ELSE IF fits > 0
                     THEN <<[w EXCEPT !.data = SubSeq(@, fits + 1, Len(@))]>>
                            \o Tail(pending.writes)
                     ELSE IF w.kind = "flush"
                     THEN <<[w EXCEPT !.kind = "drop"]>>
                     ELSE <<>>
             failed == pending.failed \/ (fits = 0 /\ w.kind # "drop")
         IN  [file |-> IF pending.orphan = None
                       THEN [f EXCEPT !.content = written] ELSE f,
              pending |-> [pending EXCEPT
                              !.writes = left, !.offset = @ + fits,
                              !.failed = failed,
                              !.orphan = IF @ = None THEN None
                                         ELSE Some(written)],
              returns |-> left = <<>>,
              ok |-> ~failed]

\* The writes of pending one after the other, until persist_to_file returns.
RECURSIVE write_all(_, _)
write_all(f, pending) ==
    LET r == file_write(f, pending) IN
    IF r.returns THEN [ok |-> r.ok, file |-> r.file]
    ELSE write_all(r.file, r.pending)

\* fn persist_to_file: the outcomes [ok, file] of File::create, the writes
\* and the drop of the BufWriter.
persist_to_file(self, f) ==
    IF ~CanCreate(f)
    THEN {[ok |-> FALSE, file |-> f]}
    ELSE {write_all(Created(f), Pending(to_write))
          : to_write \in Orders(IF self.tokens = None THEN {}
                                ELSE Unwrap(self.tokens))}

\* What a call returns and leaves behind.
Outcome(ok, ret, self, f) == [ok |-> ok, ret |-> ret, self |-> self, file |-> f]
NoToken == Token("", "")

\* The start of create, up to rebuild_token_lookup: the label is checked and
\* the new token inserted.
create_in_memory(self, token_label, uuid) ==
    IF self.tokens = None THEN [ok |-> FALSE, ret |-> NoToken, self |-> self]
    ELSE IF contains_key(Unwrap(self.tokens), token_label)
    THEN [ok |-> FALSE, ret |-> NoToken, self |-> self]
    ELSE LET new_token == Token(token_label, uuid)
             inserted == [self EXCEPT
                            !.tokens = Some(insert(Unwrap(self.tokens), new_token))]
             rebuilt == rebuild_token_lookup(inserted)
         IN  [ok |-> rebuilt.ok, ret |-> new_token, self |-> rebuilt.self]

\* pub fn create, uuid being the value of Uuid::new_v4().to_string().
create(self, f, token_label, uuid) ==
    LET changed == create_in_memory(self, token_label, uuid) IN
    IF ~changed.ok THEN {Outcome(FALSE, NoToken, changed.self, f)}
    ELSE {Outcome(p.ok, IF p.ok THEN changed.ret ELSE NoToken,
                  changed.self, p.file)
          : p \in persist_to_file(changed.self, f)}

\* Mutant of rescind_in_memory: the label is not looked up before it is
\* removed.
rescind_in_memory_unchecked(self, token_label) ==
    IF self.tokens = None THEN [ok |-> FALSE, ret |-> NoToken, self |-> self]
    ELSE LET removed == [self EXCEPT
                            !.tokens = Some(remove(Unwrap(self.tokens), token_label))]
             rebuilt == rebuild_token_lookup(removed)
         IN  [ok |-> rebuilt.ok, ret |-> NoToken, self |-> rebuilt.self]
\* The start of rescind, up to rebuild_token_lookup: the label is checked
\* and its token removed.
rescind_in_memory(self, token_label) ==
    IF self.tokens = None THEN [ok |-> FALSE, ret |-> NoToken, self |-> self]
    ELSE IF ~contains_key(Unwrap(self.tokens), token_label)
    THEN [ok |-> FALSE, ret |-> NoToken, self |-> self]
    ELSE LET removed == [self EXCEPT
                            !.tokens = Some(remove(Unwrap(self.tokens), token_label))]
             rebuilt == rebuild_token_lookup(removed)
         IN  [ok |-> rebuilt.ok, ret |-> NoToken, self |-> rebuilt.self]

\* pub fn rescind.
rescind(self, f, token_label) ==
    LET changed == rescind_in_memory(self, token_label) IN
    IF ~changed.ok THEN {Outcome(FALSE, NoToken, changed.self, f)}
    ELSE {Outcome(p.ok, NoToken, changed.self, p.file)
          : p \in persist_to_file(changed.self, f)}

----------------------------------------------------------------------------
(* MellonServer: src/src/simple_server.rs *)

\* A connection: the bytes the client sends, what ends them ("eof": the
\* client closes; "timeout": the read times out; "error": the read fails),
\* and whether set_read_timeout and the writes of respond succeed.
Conn(data, end, set_read_timeout_ok, write_ok) ==
    [data |-> data, end |-> end,
     set_read_timeout_ok |-> set_read_timeout_ok, write_ok |-> write_ok]

\* Mutant of as_str: both responses carry the 200 status line.
as_str_always_ok(response) == "HTTP/1.1 200 OK\r\n\r\n"
\* fn HttpResponse::as_str.
as_str(response) ==
    IF response = "Ok" THEN "HTTP/1.1 200 OK\r\n\r\n"
    ELSE "HTTP/1.1 401 UNAUTHORISED\r\n\r\n"

\* The items buf_reader.lines() yields before the stream's end: at "eof" a
\* last line with no "\n" is yielded too, otherwise it is lost to the error.
LinesRead(conn) ==
    LET all == Lines(conn.data) IN
    IF conn.end = "eof" \/ conn.data = ""
            \/ Char(conn.data, Len(conn.data)) = "\n"
    THEN all
    ELSE SubSeq(all, 1, Len(all) - 1)

\* Mutant of scan_lines: an empty line does not end the scan.
RECURSIVE scan_lines_past_empty(_, _)
scan_lines_past_empty(lines, end) ==
    IF lines = <<>> THEN (IF end = "eof" THEN Ok(None) ELSE Err)
    ELSE LET token == strip_prefix(Head(lines), "Authorization: Bearer ") IN
         IF token # None THEN Ok(token)
         ELSE scan_lines_past_empty(Tail(lines), end)
\* The loop of extract_auth_token over the lines read: Ok(Some(token)) at a
\* line with the prefix, Ok(None) at an empty line or at the end of the
\* input, Err when the read times out or fails.
RECURSIVE scan_lines(_, _)
scan_lines(lines, end) ==
    IF lines = <<>> THEN (IF end = "eof" THEN Ok(None) ELSE Err)
    ELSE LET token == strip_prefix(Head(lines), "Authorization: Bearer ") IN
         IF token # None THEN Ok(token)
         ELSE IF Head(lines) = "" THEN Ok(None)
         ELSE scan_lines(Tail(lines), end)

\* Mutant of extract_auth_token: the last line with the prefix is taken.
RECURSIVE scan_lines_last(_, _, _)
scan_lines_last(lines, end, found) ==
    IF lines = <<>> THEN (IF end = "eof" THEN Ok(found) ELSE Err)
    ELSE LET token == strip_prefix(Head(lines), "Authorization: Bearer ") IN
         IF token # None THEN scan_lines_last(Tail(lines), end, token)
         ELSE IF Head(lines) = "" THEN Ok(found)
         ELSE scan_lines_last(Tail(lines), end, found)
extract_auth_token_last(conn) == scan_lines_last(LinesRead(conn), conn.end, None)
\* fn extract_auth_token.
extract_auth_token(conn) == scan_lines(LinesRead(conn), conn.end)

\* fn respond: [ok, wrote], wrote being the bytes that reached the client.
respond(conn, response) ==
    IF conn.write_ok THEN [ok |-> TRUE, wrote |-> as_str(response)]
    ELSE [ok |-> FALSE, wrote |-> ""]

\* What serve_connection returns and leaves behind: wrote, the bytes that
\* reached the client; auth, what extract_auth_token returned ("unread" when
\* it was not called); asked, whether contains_token was called.
Served(ok, wrote, auth, asked) ==
    [ok |-> ok, wrote |-> wrote, auth |-> auth, asked |-> asked]
Unread == [ok |-> FALSE, val |-> "unread"]

\* fn serve_connection.
serve_connection(self, conn) ==
    IF ~conn.set_read_timeout_ok THEN Served(FALSE, "", Unread, FALSE)
    ELSE LET auth_token == extract_auth_token(conn) IN
         IF ~auth_token.ok THEN Served(FALSE, "", auth_token, FALSE)
         ELSE IF auth_token.val = None
         THEN LET r == respond(conn, "Unauthorised") IN
              Served(r.ok, r.wrote, auth_token, FALSE)
         ELSE LET found == contains_token(self, Unwrap(auth_token.val)) IN
              IF ~found.ok THEN Served(FALSE, "", auth_token, TRUE)
              ELSE LET r == respond(conn, IF found.val THEN "Ok"
                                          ELSE "Unauthorised")
                   IN  Served(r.ok, r.wrote, auth_token, TRUE)

\* Mutant of listen_turn: a failure ends the loop of listen.
listen_turn_propagates(self, stream) ==
    IF stream.ok
    THEN LET r == serve_connection(self, stream.val) IN
         [listening |-> r.ok, served |-> r]
    ELSE [listening |-> FALSE, served |-> Served(FALSE, "", Unread, FALSE)]
\* One item of listener.incoming() in listen, stream being Ok(conn) or Err:
\* the connection is served and a failure is printed; the loop goes on.
listen_turn(self, stream) ==
    IF stream.ok
    THEN [listening |-> TRUE, served |-> serve_connection(self, stream.val)]
    ELSE [listening |-> TRUE, served |-> Served(FALSE, "", Unread, FALSE)]

\* What clients send.
Bearer(secret) == "Authorization: Bearer " \o secret \o "\r\n"
DataInputs ==
    {"",
     "GET / HTTP/1.1\r\n\r\n",
     "GET / HTTP/1.1\r\n" \o Bearer(Uuid1) \o "\r\n",
     "GET / HTTP/1.1\r\n" \o Bearer(Uuid2) \o "\r\n",
     Bearer("nope") \o Bearer(Uuid1) \o "\r\n",
     "GET / HTTP/1.1\r\n\r\n" \o Bearer(Uuid1),
     "authorization: bearer " \o Uuid1 \o "\r\n\r\n",
     "Authorization:  Bearer " \o Uuid1 \o "\r\n\r\n",
     Bearer(Uuid1 \o " ") \o "\r\n",
     "Authorization: Bearer " \o Uuid1,
     "Host: mellon\n" \o "Authorization: Bearer x:y\n"}
\* Every way the bytes can end, and for two requests the failures of
\* set_read_timeout and of the write.
ConnInputs ==
    {Conn(d, e, TRUE, TRUE) : d \in DataInputs, e \in {"eof", "timeout", "error"}}
    \cup {Conn(d, "eof", s, w) :
            d \in {"GET / HTTP/1.1\r\n\r\n",
                   "GET / HTTP/1.1\r\n" \o Bearer(Uuid1) \o "\r\n"},
            s \in BOOLEAN, w \in BOOLEAN}

----------------------------------------------------------------------------
(* The store as a state machine *)

\* op: the call, named "..._persisting" while it is inside persist_to_file
\* with pending to write and "..._reading" while it is inside reload with
\* the file open; after: the call made before it; pre: the state it started
\* in; disturbed: another process changed the file while the call ran;
\* disturbances: how often the environment has changed the file while a
\* call ran;
\* arg: the token a call was given; conn and served: the connection a
\* serve_connection was given and what it returned and wrote.
NoConn == [data |-> "", end |-> "eof", set_read_timeout_ok |-> TRUE, write_ok |-> TRUE]
NoCall ==
    [op |-> "none", label |-> "", ok |-> TRUE, ret |-> NoToken, after |-> "none",
     pre |-> [tokens |-> None, token_lookup |-> None, file |-> file],
     arg |-> NoToken, conn |-> NoConn, wrote |-> "", auth |-> Unread,
     asked |-> FALSE, pending |-> NoPending, disturbed |-> FALSE,
     disturbances |-> 0]
Call(op, label, ok, ret) ==
    [NoCall EXCEPT !.op = op, !.label = label, !.ok = ok, !.ret = ret,
                   !.after = last.op, !.disturbances = last.disturbances,
                   !.pre = [tokens |-> tokens, token_lookup |-> token_lookup,
                            file |-> file]]

\* The serving process before it listens: listener is "none", "listening" or
\* "failed"; waiting counts the connections the listener has not yielded
\* yet; phase, elapsed, idle and unended describe the connection whose
\* headers are read, unended saying that bytes have arrived which no line
\* terminator has followed yet.
NoServer ==
    [listener |-> "none", waiting |-> 0, phase |-> "NoConnection",
     elapsed |-> 0, idle |-> 0, unended |-> FALSE]
NoAdmins == <<>>

Init ==
    /\ file \in FileInputs
    /\ constructed = FALSE
    /\ tokens = None
    /\ token_lookup = None
    /\ last = NoCall
    /\ server = NoServer
    /\ admins = NoAdmins

\* What last.op says while a call is inside persist_to_file, the file
\* created and its writes to come, and while it is inside reload, the file
\* opened and its reads to come.
Persisting == {"create_persisting", "rescind_persisting", "persist_persisting"}
Reading == {"new_reading", "reload_reading"}
InCall == Persisting \cup Reading
Returned(op) ==
    IF op = "create_persisting" THEN "create"
    ELSE IF op = "rescind_persisting" THEN "rescind"
    ELSE IF op = "persist_persisting" THEN "persist"
    ELSE IF op = "new_reading" THEN "new"
    ELSE "reload"

\* reload returns r to op, "new" or "reload": TokenStore::new returns the
\* store only when reload succeeded.
Loads(op, r) ==
    /\ constructed' = IF op = "new" THEN r.ok ELSE constructed
    /\ tokens' = IF op = "new" /\ ~r.ok THEN None ELSE r.self.tokens
    /\ token_lookup' = IF op = "new" /\ ~r.ok THEN None
                       ELSE r.self.token_lookup

\* reload up to File::open: a file that cannot be opened ends the call,
\* with an empty store if there is none and with the error otherwise.
Opens(op) ==
    IF CanOpen(file)
    THEN /\ last' = Call(op \o "_reading", "", FALSE, NoToken)
         /\ UNCHANGED <<constructed, tokens, token_lookup>>
    ELSE LET r == reload(Self, file, <<>>) IN
         /\ Loads(op, r)
         /\ last' = Call(op, "", r.ok, NoToken)

\* pub fn new up to File::open: a store with tokens and token_lookup None,
\* then reload.
New ==
    /\ ~constructed
    /\ last.op \notin InCall
    /\ Opens("new")
    /\ UNCHANGED <<file, server, admins>>

\* pub fn reload up to File::open.
Reload ==
    /\ constructed
    /\ last.op \notin InCall
    /\ Opens("reload")
    /\ UNCHANGED <<file, server, admins>>

\* The next read of the call inside reload; when reload returns, the lines
\* it was given stay in last.
ReloadReads ==
    /\ last.op \in Reading
    /\ LET r == reload_reads(Self, file, last.pending) IN
        IF r.returns
        THEN /\ Loads(Returned(last.op), r.result)
             /\ last' = [last EXCEPT
                            !.op = Returned(@), !.ok = r.result.ok,
                            !.pending = [NoPending EXCEPT
                                            !.lines = r.pending.lines]]
        ELSE /\ last' = [last EXCEPT !.pending = r.pending]
             /\ UNCHANGED <<constructed, tokens, token_lookup>>
    /\ UNCHANGED <<file, server, admins>>

\* A call of create or rescind that has changed the store as changed says,
\* up to File::create in persist_to_file: the call returns its error when
\* the label check or File::create fails; else the file is truncated and
\* the lines are in the BufWriter.
Persists(op, token_label, changed) ==
    /\ tokens' = changed.self.tokens
    /\ token_lookup' = changed.self.token_lookup
    /\ IF changed.ok /\ CanCreate(file)
       THEN \E to_write \in Orders(Unwrap(changed.self.tokens)) :
                /\ file' = Created(file)
                /\ last' = [Call(op \o "_persisting", token_label, FALSE,
                                 changed.ret)
                            EXCEPT !.pending = Pending(to_write)]
       ELSE /\ file' = file
            /\ last' = Call(op, token_label, FALSE, NoToken)

\* pub fn create up to File::create. The label is checked first; when the
\* store does not hold it, Uuid::new_v4 is called, which is taken never to
\* return a secret the store already holds, and the store grows to
\* MaxTokens tokens at most.
Create(token_label, uuid) ==
    /\ constructed
    /\ last.op \notin InCall
    /\ \/ contains_key(Unwrap(tokens), token_label)
       \/ /\ uuid \notin Unwrap(token_lookup)
          /\ Cardinality(Unwrap(tokens)) < MaxTokens
    /\ Persists("create", token_label, create_in_memory(Self, token_label, uuid))
    /\ UNCHANGED <<constructed, server, admins>>

\* pub fn rescind up to File::create.
Rescind(token_label) ==
    /\ constructed
    /\ last.op \notin InCall
    /\ Persists("rescind", token_label, rescind_in_memory(Self, token_label))
    /\ UNCHANGED <<constructed, server, admins>>

\* The next write of the call inside persist_to_file; when persist_to_file
\* returns, create gives the new token or the error, rescind Ok or the
\* error.
PersistWrites ==
    /\ last.op \in Persisting
    /\ LET r == file_write(file, last.pending) IN
        /\ file' = r.file
        /\ last' = IF r.returns
                   THEN [last EXCEPT !.op = Returned(@), !.ok = r.ok,
                                     !.ret = IF r.ok THEN @ ELSE NoToken,
                                     !.pending = NoPending]
                   ELSE [last EXCEPT !.pending = r.pending]
    /\ UNCHANGED <<constructed, tokens, token_lookup, server, admins>>

\* What last becomes when another process acts, call being its step: a
\* call of the store that holds the file open goes on, disturbed if the
\* file was changed.
Beside(call, changed) ==
    IF last.op \in InCall
    THEN [last EXCEPT !.disturbed = @ \/ changed]
    ELSE call

\* Something else rewrites the backing file where it is, as the
\* persist_to_file of another process does, changes its permissions or
\* the room it has, or removes it, at any moment: no call of the store
\* locks the file. A call that holds the file open keeps it when it is
\* removed. Between two calls, the file replaced is not recorded. It
\* reaches into the calls of the store MaxDisturbances times at most.
EnvSetFile(f) ==
    /\ f # file
    /\ last.op \in InCall => last.disturbances < MaxDisturbances
    /\ file' = f
    /\ last' = IF last.op \in InCall
               THEN [last EXCEPT
                        !.disturbed = TRUE,
                        !.disturbances = @ + 1,
                        !.pending.orphan =
                            IF @ = None /\ IsNotFound(f)
                            THEN Some(file.content) ELSE @]
               ELSE [Call("env", "", TRUE, NoToken) EXCEPT !.pre.file = f]
    /\ UNCHANGED <<constructed, tokens, token_lookup, server, admins>>

\* Something else makes room where the file had none left, as a file
\* deleted from a full disk or a quota raised does; the file stays as it
\* is. Inside a call of the store it counts among the MaxDisturbances.
EnvFreesRoom ==
    /\ file.room # None
    /\ last.op \in InCall => last.disturbances < MaxDisturbances
    /\ file' = [file EXCEPT !.room = None]
    /\ last' = IF last.op \in InCall
               THEN [last EXCEPT !.disturbed = TRUE, !.disturbances = @ + 1]
               ELSE [Call("env", "", TRUE, NoToken) EXCEPT
                        !.pre.file = [file EXCEPT !.room = None]]
    /\ UNCHANGED <<constructed, tokens, token_lookup, server, admins>>

Next ==
    \/ New
    \/ Reload
    \/ ReloadReads
    \/ \E l \in LabelInputs, u \in UuidInputs : Create(l, u)
    \/ \E l \in LabelInputs : Rescind(l)
    \/ PersistWrites
    \/ \E f \in FileInputs : EnvSetFile(f)
    \/ EnvFreesRoom

Spec == Init /\ [][Next]_vars

\* The calls made step by step, when nothing else changes the file
\* meanwhile, return what create, rescind and reload give in one piece.
StepsAgree ==
    LET before == Store(last.pre.tokens, last.pre.token_lookup)
        now == Outcome(last.ok, last.ret, Self, file)
    IN  ~last.disturbed =>
        /\ last.op = "create" =>
            \E u \in UuidInputs :
                now \in create(before, last.pre.file, last.label, u)
        /\ last.op = "rescind" =>
            now \in rescind(before, last.pre.file, last.label)
        /\ last.op \in {"new", "reload"} =>
            /\ file = last.pre.file
            /\ [ok |-> last.ok, self |-> Self]
                    = reload_alone(before, last.pre.file)

----------------------------------------------------------------------------
(* Administrative processes: main with "token add" or "token rescind",     *)
(* each with a TokenStore of its own on the shared backing file            *)

\* A process that has not started: its command, the label it was given and
\* the secret Uuid::new_v4 will give it; self is its TokenStore.
Admin(command, token_label, uuid) ==
    [pc |-> "start", command |-> command, label |-> token_label,
     uuid |-> uuid, self |-> Store(None, None), ok |-> FALSE,
     pending |-> NoPending]

\* The tokens a load of the file gives now.
OnFile == reload_alone(Store(None, None), file)

\* main of process p: TokenStore::new on the shared path, up to File::open
\* in reload; a file that cannot be opened ends the call.
AdminNew(p) ==
    /\ p \in DOMAIN admins
    /\ admins[p].pc = "start"
    /\ LET r == reload(admins[p].self, file, <<>>) IN
        /\ admins' = [admins EXCEPT
                        ![p].pc = IF CanOpen(file) THEN "reading"
                                  ELSE IF r.ok THEN "loaded" ELSE "failed",
                        ![p].self = IF CanOpen(file) THEN @ ELSE r.self]
        /\ last' = Beside(Call("admin_new", admins[p].label,
                               ~CanOpen(file) /\ r.ok, NoToken), FALSE)
    /\ UNCHANGED <<file, constructed, tokens, token_lookup, server>>

\* The next read of reload in process p; when reload returns, the process
\* has its store or ends with the error.
AdminReads(p) ==
    /\ p \in DOMAIN admins
    /\ admins[p].pc = "reading"
    /\ LET r == reload_reads(admins[p].self, file, admins[p].pending) IN
        /\ admins' = [admins EXCEPT
                        ![p].pc = IF ~r.returns THEN "reading"
                                  ELSE IF r.result.ok THEN "loaded"
                                  ELSE "failed",
                        ![p].self = IF r.returns THEN r.result.self ELSE @,
                        ![p].pending = IF r.returns THEN NoPending
                                       ELSE r.pending]
        /\ last' = Beside(Call("admin_read", admins[p].label,
                               r.returns /\ r.result.ok, NoToken), FALSE)
    /\ UNCHANGED <<file, constructed, tokens, token_lookup, server>>

\* create or rescind of process p up to File::create in persist_to_file:
\* the store is changed in memory and the file is truncated; the lines are
\* in the BufWriter and have not reached the file. A call that fails
\* before or in File::create ends here. As in Create, the label is checked
\* first, the secret of a label not held is new and the store grows to
\* MaxTokens tokens at most.
AdminCreatesFile(p) ==
    /\ p \in DOMAIN admins
    /\ admins[p].pc = "loaded"
    /\ admins[p].command = "add" =>
        \/ contains_key(Unwrap(admins[p].self.tokens), admins[p].label)
        \/ /\ admins[p].uuid \notin Unwrap(admins[p].self.token_lookup)
           /\ Cardinality(Unwrap(admins[p].self.tokens)) < MaxTokens
    /\ LET changed == IF admins[p].command = "add"
                      THEN create_in_memory(admins[p].self, admins[p].label,
                                            admins[p].uuid)
                      ELSE rescind_in_memory(admins[p].self, admins[p].label)
       IN  IF changed.ok /\ CanCreate(file)
           THEN \E to_write \in Orders(Unwrap(changed.self.tokens)) :
                /\ file' = Created(file)
                /\ admins' = [admins EXCEPT
                        ![p].pc = "writing", ![p].self = changed.self,
                        ![p].pending =
                            [Pending(to_write) EXCEPT
                                !.before = IF OnFile.ok THEN OnFile.self.tokens
                                           ELSE None]]
                /\ last' = Beside(Call("admin_create_file", admins[p].label,
                                       TRUE, NoToken), TRUE)
           ELSE /\ file' = file
                /\ admins' = [admins EXCEPT
                        ![p].pc = "done", ![p].self = changed.self,
                        ![p].ok = FALSE]
                /\ last' = Beside(Call("admin_create_file", admins[p].label,
                                       FALSE, NoToken), FALSE)
    /\ UNCHANGED <<constructed, tokens, token_lookup, server>>

\* The next write of persist_to_file of process p reaches the file, at the
\* offset the writes before it have left: the file takes what fits, and
\* the rest of a write cut short is written next. A write that nothing of
\* fits fails: persist_to_file returns the error if the write was made for
\* writeln!, and Ok if it was made when the BufWriter was dropped.
AdminWritesFile(p) ==
    /\ p \in DOMAIN admins
    /\ admins[p].pc = "writing"
    /\ LET r == file_write(file, admins[p].pending) IN
        /\ file' = r.file
        /\ admins' = [admins EXCEPT
                        ![p].pc = IF r.returns THEN "done" ELSE "writing",
                        ![p].ok = r.returns /\ r.ok,
                        ![p].pending = r.pending]
        /\ last' = Beside(Call("admin_write_file", admins[p].label, r.ok,
                               NoToken), TRUE)
    /\ UNCHANGED <<constructed, tokens, token_lookup, server>>

\* What last.op says of the steps of an administrative process.
AdminOps ==
    {"admin_new", "admin_read", "admin_create_file", "admin_write_file"}

\* Labels the administrative process beside the serving one is given.
AdminLabels == {"a"}
\* The secrets Uuid::new_v4 can give it.
AdminUuids == UuidInputs

\* An administrative process is started beside the serving one, the one
\* before it having ended.
AdminStarts(command, token_label, uuid) ==
    /\ \A p \in DOMAIN admins : admins[p].pc \in {"done", "failed"}
    /\ admins' = <<Admin(command, token_label, uuid)>>
    /\ UNCHANGED <<file, constructed, tokens, token_lookup, last, server>>

AdminProcs == {1, 2}
\* A label that the BufWriter, whose buffer it would fill, writes to the
\* file at once.
LongLabel == Repeat("0123456789abcdef", BufWriterCapacity \div 16)
\* The file the two processes find.
AdminFileInputs ==
    {File("NoDir", ""), File("NotFound", ""), File("Present", ""),
     File("Denied", "a:" \o Uuid1 \o "\n"),
     File("ReadOnly", "a:x\n"),
     FileWithRoom("Present", "b:y\n", Some(3)),
     File("Present", " a : s 1 \r\nb:x:y"),
     File("Present", "b:y"),
     File("Present", "bad\n")}

InitAdmins ==
    /\ file \in AdminFileInputs
    /\ constructed = FALSE
    /\ tokens = None
    /\ token_lookup = None
    /\ last = NoCall
    /\ server = NoServer
    /\ \E c1 \in {"add", "rescind"}, c2 \in {"add", "rescind"},
          l1 \in {"a", "b", LongLabel}, l2 \in {"a", "b"} :
            admins = <<Admin(c1, l1, Uuid1), Admin(c2, l2, Uuid2)>>

NextAdmins ==
    \/ \E p \in AdminProcs : AdminNew(p)
    \/ \E p \in AdminProcs : AdminReads(p)
    \/ \E p \in AdminProcs : AdminCreatesFile(p)
    \/ \E p \in AdminProcs : AdminWritesFile(p)

SpecAdmins == InitAdmins /\ [][NextAdmins]_vars

----------------------------------------------------------------------------
(* The serving process: the store is loaded once, then connections are     *)
(* served one at a time from it, while the file may change under it        *)

\* The start of listen: TcpListener::bind; its failure ends the process.
Bind(bound) ==
    /\ constructed
    /\ server.listener = "none"
    /\ server' = [server EXCEPT
                    !.listener = IF bound THEN "listening" ELSE "failed"]
    /\ last' = Call("bind", "", bound, NoToken)
    /\ UNCHANGED <<file, constructed, tokens, token_lookup, admins>>

\* What one turn of the loop of listen leaves in last and in server: a
\* connection that was served is closed when its stream is dropped. The
\* call before a turn is the one before its connection was accepted, unless
\* another process acted since.
Turn(op, conn, t) ==
    /\ last' = [Call(op, "", t.served.ok, NoToken) EXCEPT
                    !.after = IF last.op = "accepted" THEN last.after
                              ELSE last.op,
                    !.conn = conn, !.wrote = t.served.wrote,
                    !.auth = t.served.auth, !.asked = t.served.asked]
    /\ server' = [server EXCEPT
                    !.listener = IF t.listening THEN "listening" ELSE "failed",
                    !.phase = IF op = "serve" THEN "Closed" ELSE @,
                    !.elapsed = 0, !.idle = 0, !.unended = FALSE]

\* Connections that wait for the listener at most.
MaxWaiting == 1

\* A client connects: its connection waits until the loop of listen takes
\* it, whatever the serving process is doing.
Connect ==
    /\ server.listener = "listening"
    /\ server.waiting < MaxWaiting
    /\ server' = [server EXCEPT !.waiting = @ + 1]
    /\ UNCHANGED <<file, constructed, tokens, token_lookup, last, admins>>

\* listener.incoming() yields a connection that waited: listen calls
\* serve_connection, which sets the read timeout, and extract_auth_token
\* starts to read.
Accept ==
    /\ server.listener = "listening"
    /\ server.phase \in {"NoConnection", "Closed"}
    /\ server.waiting > 0
    /\ server' = [server EXCEPT
                    !.waiting = @ - 1,
                    !.phase = "AwaitingHeaders", !.elapsed = 0, !.idle = 0,
                    !.unended = FALSE]
    /\ last' = Call("accepted", "", TRUE, NoToken)
    /\ UNCHANGED <<file, constructed, tokens, token_lookup, admins>>

\* Mutant of ServeConnection: the store is reloaded for every connection.
ServeConnectionReloading(conn) ==
    /\ server.phase = "AwaitingHeaders"
    /\ LET r == reload_alone(Self, file) IN
        /\ tokens' = r.self.tokens
        /\ token_lookup' = r.self.token_lookup
        /\ Turn("serve", conn, listen_turn(r.self, Ok(conn)))
    /\ UNCHANGED <<file, constructed, admins>>
\* The rest of the turn of the loop of listen: the reads of the connection
\* accepted have given what conn says; it is answered and dropped.
ServeConnection(conn) ==
    /\ server.phase = "AwaitingHeaders"
    /\ Turn("serve", conn, listen_turn(Self, Ok(conn)))
    /\ UNCHANGED <<file, constructed, tokens, token_lookup, admins>>

\* One turn of the loop of listen: the accept fails.
AcceptError ==
    /\ server.listener = "listening"
    /\ server.phase \in {"NoConnection", "Closed"}
    /\ Turn("accept", NoConn, listen_turn(Self, Err))
    /\ UNCHANGED <<file, constructed, tokens, token_lookup, admins>>

\* The serving process alone, with every connection of ConnInputs.
NextConnections ==
    \/ New
    \/ ReloadReads
    \/ \E bound \in BOOLEAN : Bind(bound)
    \/ Connect
    \/ Accept
    \/ \E conn \in ConnInputs : ServeConnection(conn)
    \/ AcceptError

SpecConnections == Init /\ [][NextConnections]_vars

\* The connections served while administrative processes run: two requests
\* with every failure of set_read_timeout and of the write, a secret no
\* store holds, a read that times out and a read that fails.
ServerConnInputs ==
    {Conn(d, "eof", s, w) :
        d \in {"GET / HTTP/1.1\r\n\r\n",
               "GET / HTTP/1.1\r\n" \o Bearer(Uuid1) \o "\r\n"},
        s \in BOOLEAN, w \in BOOLEAN}
    \cup {Conn("GET / HTTP/1.1\r\n" \o Bearer("nope") \o "\r\n", "eof",
                TRUE, TRUE),
          Conn("", "timeout", TRUE, TRUE),
          Conn("GET / HTTP/1.1\r\n", "error", TRUE, TRUE)}

\* The serving process and the administrative processes run beside it.
NextServer ==
    \/ New
    \/ ReloadReads
    \/ \E bound \in BOOLEAN : Bind(bound)
    \/ Connect
    \/ Accept
    \/ \E conn \in ServerConnInputs : ServeConnection(conn)
    \/ AcceptError
    \/ \E command \in {"add", "rescind"}, l \in AdminLabels, u \in AdminUuids :
            AdminStarts(command, l, u)
    \/ \E p \in DOMAIN admins : AdminNew(p)
    \/ \E p \in DOMAIN admins : AdminReads(p)
    \/ \E p \in DOMAIN admins : AdminCreatesFile(p)
    \/ \E p \in DOMAIN admins : AdminWritesFile(p)

\* The file the serving process finds when it starts; the last one is on a
\* file system that takes no more bytes.
ServerFileInputs ==
    {File("NotFound", ""),
     File("Present", "a:" \o Uuid1 \o "\n"),
     File("ReadOnly", "a:" \o Uuid1 \o "\n"),
     File("Present", "bad\n"),
     FileWithRoom("Present", "a:" \o Uuid1 \o "\nb:" \o Uuid2 \o "\n", Some(0))}

InitServer ==
    /\ file \in ServerFileInputs
    /\ constructed = FALSE
    /\ tokens = None
    /\ token_lookup = None
    /\ last = NoCall
    /\ server = NoServer
    /\ admins = NoAdmins

SpecServer == InitServer /\ [][NextServer]_vars

----------------------------------------------------------------------------
(* Persist then reload, from any store: test_persist_to_file sets tokens   *)
(* on the store new has left and calls persist_to_file, test_contains_token *)
(* reloads what create has written                                         *)

\* The fields of the tokens a round trip starts from.
RoundTripLabels == {"a", "b", "\fa", "a:b", "a\nb", ""}
RoundTripSecrets == {"x", "y ", "x:y", ""}
\* The most tokens a round trip starts from.
MaxRoundTrip == 2

RoundTripStores ==
    {m \in SUBSET (RoundTripLabels \X RoundTripSecrets) :
        /\ Cardinality(m) <= MaxRoundTrip
        /\ \A t, u \in m : t[1] = u[1] => t = u}

\* The store of test_persist_to_file: new on a path with no file, then
\* tokens assigned, which leaves token_lookup the empty set new has built;
\* or the store whose token_lookup was rebuilt from tokens, as create and
\* rescind leave it before they persist.
InitRoundTrip ==
    /\ file = File("NotFound", "")
    /\ constructed = TRUE
    /\ \E m \in RoundTripStores :
        /\ tokens = Some(m)
        /\ token_lookup \in {Some({}), Some({t[2] : t \in m})}
    /\ last = NoCall
    /\ server = NoServer
    /\ admins = NoAdmins

Persist ==
    /\ last.op \notin InCall
    /\ IF CanCreate(file)
       THEN \E to_write \in Orders(Unwrap(tokens)) :
                /\ file' = Created(file)
                /\ last' = [Call("persist_persisting", "", FALSE, NoToken)
                            EXCEPT !.pending = Pending(to_write)]
       ELSE /\ file' = file
            /\ last' = Call("persist", "", FALSE, NoToken)
    /\ UNCHANGED <<constructed, tokens, token_lookup, server, admins>>

NextRoundTrip ==
    \/ Persist
    \/ PersistWrites
    \/ Reload
    \/ ReloadReads

SpecRoundTrip == InitRoundTrip /\ [][NextRoundTrip]_vars

----------------------------------------------------------------------------
(* The token store's claims, checked under Spec *)

Pre == last.pre
PreTokens == Unwrap(Pre.tokens)
CreateOk == last.op = "create" /\ last.ok
RescindOk == last.op = "rescind" /\ last.ok
\* The token a rescind removed.
Removed == CHOOSE t \in PreTokens : t[1] = last.label
\* Every secret a state of the model can hold or a caller can present.
SecretInputs ==
    UuidInputs \cup {"s 1", "x:y", "", "nonexistent_token"}
    \cup (IF token_lookup = None THEN {} ELSE Unwrap(token_lookup))
    \cup (IF Pre.token_lookup = None THEN {} ELSE Unwrap(Pre.token_lookup))

\* C1: once new has succeeded, token_lookup is exactly the set of the secrets
\* of the tokens in the tokens map, after every reload, create and rescind,
\* successful or failing.
C1_LookupIsSecretsOfTokens ==
    constructed =>
        /\ tokens # None
        /\ token_lookup = Some({t[2] : t \in Unwrap(tokens)})

\* C1's case: a rescind has removed a secret from a store that keeps another.
C1_Witness ==
    /\ RescindOk
    /\ Unwrap(token_lookup) # {}
    /\ Unwrap(token_lookup) # Unwrap(Pre.token_lookup)

\* C2: right after a successful create(label), contains_token is true of the
\* returned secret, the tokens map binds label to the returned token, and
\* contains_token answers as before the call for every other secret.
C2_CreateMembership ==
    CreateOk =>
        /\ contains_token(Self, last.ret[2]) = Ok(TRUE)
        /\ last.ret[1] = last.label
        /\ \A t \in Unwrap(tokens) : t[1] = last.label <=> t = last.ret
        /\ \A s \in SecretInputs \ {last.ret[2]} :
                contains_token(Self, s) = contains_token(Pre, s)

\* C2's case: a create has succeeded on a store that held a token.
C2_Witness == CreateOk /\ PreTokens # {}

\* C3 as stated: right after a successful rescind(label), contains_token is
\* false of the removed token's secret and true of the secret of every
\* token that was not rescinded.
C3_Original ==
    RescindOk =>
        /\ contains_token(Self, Removed[2]) = Ok(FALSE)
        /\ \A t \in PreTokens \ {Removed} : contains_token(Self, t[2]) = Ok(TRUE)

\* C3 as amended: contains_token stays true of the secret of every token
\* that was not rescinded, and it is false of the removed token's secret
\* exactly when no remaining token carries that same secret.
C3_RescindMembership ==
    RescindOk =>
        /\ \A t \in PreTokens \ {Removed} : contains_token(Self, t[2]) = Ok(TRUE)
        /\ contains_token(Self, Removed[2]) =
                Ok(\E t \in PreTokens \ {Removed} : t[2] = Removed[2])
        /\ \A s \in SecretInputs \ {Removed[2]} :
                contains_token(Self, s) = contains_token(Pre, s)

\* C3's case: a rescind has removed one of two tokens with different secrets.
C3_Witness ==
    /\ RescindOk
    /\ \E t \in PreTokens \ {Removed} : t[2] # Removed[2]
    /\ contains_token(Self, Removed[2]) = Ok(FALSE)

\* C4: create(label) with a label that is already a key of tokens returns an
\* error and leaves the tokens map, token_lookup and the file unchanged.
C4_DuplicateLabelRejected ==
    (last.op = "create" /\ \E t \in PreTokens : t[1] = last.label) =>
        /\ ~last.ok
        /\ tokens = Pre.tokens
        /\ token_lookup = Pre.token_lookup
        /\ file = Pre.file

\* C4's case: create was called with a label the store held, over a file that
\* a successful create would have rewritten.
C4_Witness ==
    /\ last.op = "create"
    /\ \E t \in PreTokens : t[1] = last.label
    /\ Pre.file.kind = "Present"
    /\ Pre.file.content \notin Serializations(PreTokens)

\* C5: rescind(label) with a label that is not a key of tokens returns an
\* error and leaves the tokens map, token_lookup and the file unchanged.
C5_UnknownLabelRejected ==
    (last.op = "rescind" /\ \A t \in PreTokens : t[1] # last.label) =>
        /\ ~last.ok
        /\ tokens = Pre.tokens
        /\ token_lookup = Pre.token_lookup
        /\ file = Pre.file

\* C5's case: rescind was called with a label the store did not hold, the
\* store holding a token and the file differing from what persist would write.
C5_Witness ==
    /\ last.op = "rescind"
    /\ PreTokens # {}
    /\ \A t \in PreTokens : t[1] # last.label
    /\ Pre.file.kind = "Present"
    /\ Pre.file.content \notin Serializations(PreTokens)


\* One line per token and nothing else: as many lines as tokens, and the
\* lines are the tokens' "label:secret".
OneLinePerToken(content, token_map) ==
    LET lines == Lines(content) IN
    /\ Len(lines) = Cardinality(token_map)
    /\ {lines[i] : i \in 1..Len(lines)} = {t[1] \o ":" \o t[2] : t \in token_map}

\* C6 as stated: after every create or rescind that returns success, the
\* file holds exactly one line "label:secret" per token of the tokens map and
\* nothing else.
C6_Original ==
    (CreateOk \/ RescindOk) =>
        /\ file.kind \in {"Present", "WriteOnly"}
        /\ OneLinePerToken(file.content, Unwrap(tokens))

----------------------------------------------------------------------------
(* The round trip's claim, checked under SpecRoundTrip *)

HasChar(s, c) == \E i \in 1..Len(s) : SubSeq(s, i, i) = c
Trimmed(s) ==
    Len(s) > 0 =>
        /\ SubSeq(s, 1, 1) \notin White_Space
        /\ SubSeq(s, Len(s), Len(s)) \notin White_Space
ReloadedAfterPersist ==
    /\ last.op = "reload"
    /\ last.after = "persist"
    /\ Pre.file.kind = "Present"
\* The store a round trip may start from, as C7 states it.
C7_Precondition ==
    \A t \in PreTokens :
        /\ t[1] # ""
        /\ ~HasChar(t[1], ":")
        /\ ~HasChar(t[2], ":")
\* The reload restored the tokens map and the token_lookup as they were.
C7_RestoredBoth ==
    /\ last.ok
    /\ tokens = Pre.tokens
    /\ token_lookup = Pre.token_lookup
\* The reload restored the tokens map, and token_lookup is the set of its
\* secrets: the token_lookup as it was, if that had been rebuilt from the
\* map.
C7_Restored ==
    /\ last.ok
    /\ tokens = Pre.tokens
    /\ token_lookup = Some({t[2] : t \in PreTokens})
    /\ Pre.token_lookup = Some({t[2] : t \in PreTokens})
            => token_lookup = Pre.token_lookup

\* C7 as stated: for unique non-empty labels and fields without ':',
\* persisting the store and reloading it yields the tokens map and the
\* token_lookup it had before.
C7_Original == (ReloadedAfterPersist /\ C7_Precondition) => C7_RestoredBoth

\* C7 as amended: for fields that moreover have no leading or trailing
\* whitespace and hold no line terminator, persisting the store and
\* reloading it yields the tokens map it had before and the token_lookup
\* that is the set of the secrets of that map, which is the token_lookup it
\* had before whenever that had been rebuilt from the map.
C7_RoundTrip ==
    (/\ ReloadedAfterPersist
     /\ C7_Precondition
     /\ \A t \in PreTokens : \A i \in 1..2 : Trimmed(t[i]) /\ ~HasChar(t[i], "\n"))
    => C7_Restored

\* C7's case: a store of two tokens within the amended precondition, one
\* with an empty secret, whose token_lookup was the empty set new had left,
\* has been persisted and reloaded.
C7_Witness ==
    /\ ReloadedAfterPersist
    /\ Pre.token_lookup = Some({})
    /\ C7_Precondition
    /\ \A t \in PreTokens : \A i \in 1..2 : Trimmed(t[i]) /\ ~HasChar(t[i], "\n")
    /\ Cardinality(PreTokens) = 2
    /\ \E t \in PreTokens : t[2] = ""

----------------------------------------------------------------------------
(* reload's claims, checked under Spec *)

\* A line of content has no ':'.
HoldsMalformedLine(content) ==
    \E i \in 1..Len(Lines(content)) : ~HasChar(Lines(content)[i], ":")

\* A line reader.lines() has yielded to the call has no ':'.
YieldedMalformedLine ==
    \E i \in 1..Len(last.pending.lines) : ~HasChar(last.pending.lines[i], ":")

\* C8: if the file holds a line with no ':', reload returns an error and
\* the tokens map and token_lookup are what they were before the call,
\* wherever the line sits in the file. The lines of the file are those
\* reload read: the lines of the file as the call found it when nothing
\* else changed it meanwhile, and the lines reader.lines() yielded to the
\* call in any case.
C8_MalformedLineRejected ==
    (/\ last.op = "reload"
     /\ \/ /\ ~last.disturbed
           /\ Pre.file.kind = "Present"
           /\ HoldsMalformedLine(Pre.file.content)
        \/ YieldedMalformedLine)
    => /\ ~last.ok
       /\ tokens = Pre.tokens
       /\ token_lookup = Pre.token_lookup

\* C8's case: a store that held a token was reloaded from a file, left
\* alone meanwhile, whose first line parses, to a different token, and whose
\* second line does not.
C8_Witness ==
    /\ last.op = "reload"
    /\ ~last.disturbed
    /\ Pre.file.kind = "Present"
    /\ Len(Lines(Pre.file.content)) >= 2
    /\ HasChar(Lines(Pre.file.content)[1], ":")
    /\ ~HasChar(Lines(Pre.file.content)[2], ":")
    /\ PreTokens # {}
    /\ \A t \in PreTokens : Lines(Pre.file.content)[1] # t[1] \o ":" \o t[2]

\* C9: new over a path with no file succeeds and yields an empty tokens map
\* and an empty token_lookup, and so does reload on a loaded store, which
\* replaces whatever was in memory by the empty store.
C9_MissingFileIsEmptyStore ==
    (last.op \in {"new", "reload"} /\ Pre.file.kind \in {"NotFound", "NoDir"})
    => /\ last.ok
       /\ constructed
       /\ tokens = Some({})
       /\ token_lookup = Some({})

\* C9's case: a store that held tokens was reloaded with the file absent.
C9_Witness ==
    /\ last.op = "reload"
    /\ Pre.file.kind = "NotFound"
    /\ PreTokens # {}
    /\ tokens = Some({})

----------------------------------------------------------------------------
(* The connection handler's claims, checked under SpecConnections and,    *)
(* for the loop of listen, under SpecServer                                *)

Status200 == "HTTP/1.1 200 OK\r\n\r\n"
Status401 == "HTTP/1.1 401 UNAUTHORISED\r\n\r\n"
StartsWithBearer(line) ==
    /\ Len(line) >= 22
    /\ SubSeq(line, 1, 22) = "Authorization: Bearer "
SecretOf(line) == SubSeq(line, 23, Len(line))
\* The lines the client of the connection served last has sent.
Sent == Lines(last.conn.data)
\* The index in Sent of the first line that ends the scan, 0 when none does.
FirstStop ==
    IF \E i \in 1..Len(Sent) : StartsWithBearer(Sent[i]) \/ Sent[i] = ""
    THEN CHOOSE i \in 1..Len(Sent) :
            /\ StartsWithBearer(Sent[i]) \/ Sent[i] = ""
            /\ \A j \in 1..(i - 1) : ~StartsWithBearer(Sent[j]) /\ Sent[j] # ""
    ELSE 0
\* A connection served with no failure of its own: the timeout was set, the
\* client sent whole lines up to a bearer line or a blank line, or closed,
\* and the response was written.
ServedWhole ==
    /\ last.op = "serve"
    /\ last.conn.set_read_timeout_ok
    /\ last.conn.write_ok
    /\ \/ last.conn.end = "eof"
       \/ /\ FirstStop # 0
          /\ \/ FirstStop < Len(Sent)
             \/ SubSeq(last.conn.data, Len(last.conn.data), Len(last.conn.data)) = "\n"

\* C10 as stated: a connection receives 200 if and only if it presents a
\* header line "Authorization: Bearer <secret>" whose secret is in
\* token_lookup; one that presents no such header before the blank line, or
\* a secret not in token_lookup, receives 401.
C10_Original ==
    ServedWhole =>
        /\ last.wrote = Status200 <=>
                \E i \in 1..Len(Sent) :
                    /\ StartsWithBearer(Sent[i])
                    /\ SecretOf(Sent[i]) \in Unwrap(token_lookup)
        /\ last.wrote \in {Status200, Status401}

\* C10 as amended: a connection receives 200 if and only if the first line
\* it presents that starts with "Authorization: Bearer ", no empty line
\* coming before it, carries a secret that is in token_lookup; it receives
\* 401 otherwise.
C10_Authorization ==
    ServedWhole =>
        /\ last.wrote = Status200 <=>
                /\ FirstStop # 0
                /\ StartsWithBearer(Sent[FirstStop])
                /\ SecretOf(Sent[FirstStop]) \in Unwrap(token_lookup)
        /\ last.wrote \in {Status200, Status401}

\* C10's case: a connection whose first bearer line carries a secret that is
\* not in token_lookup and whose second one carries one that is has been
\* answered 401.
C10_Witness ==
    /\ ServedWhole
    /\ FirstStop # 0
    /\ StartsWithBearer(Sent[FirstStop])
    /\ SecretOf(Sent[FirstStop]) \notin Unwrap(token_lookup)
    /\ \E i \in (FirstStop + 1)..Len(Sent) :
            /\ StartsWithBearer(Sent[i])
            /\ SecretOf(Sent[i]) \in Unwrap(token_lookup)
    /\ last.wrote = Status401

\* A connection on which the timeout was set and the response could be
\* written, and whose header lines ended in a timeout or a connection error
\* before a bearer line or an empty line came.
ReadFailed ==
    /\ last.op = "serve"
    /\ last.conn.set_read_timeout_ok
    /\ last.conn.write_ok
    /\ last.conn.end \in {"timeout", "error"}
    /\ FirstStop = 0

\* C11 as stated: when reading header lines times out or fails before a
\* credential is found, the handler writes the 401 response to the
\* connection without consulting the token store.
C11_Original ==
    ReadFailed => last.wrote = Status401 /\ ~last.asked

\* A connection of the serving process, or an accept, that failed.
TurnFailed == last.op \in {"serve", "accept"} /\ ~last.ok

\* C12: after a connection fails (setting the timeout, reading, writing) or
\* an accept fails, the loop of listen is still accepting and the token
\* store is as it was, so that the next connection is served as before.
C12_FailuresIsolated ==
    TurnFailed =>
        /\ server.listener = "listening"
        /\ ENABLED AcceptError
        /\ server.waiting > 0 => ENABLED Accept
        /\ tokens = Pre.tokens
        /\ token_lookup = Pre.token_lookup

\* C12's case: a connection failed right after an accept had failed, and
\* the loop of listen goes on.
C12_Witness ==
    /\ last.op = "serve"
    /\ ~last.ok
    /\ last.after = "accept"
    /\ server.listener = "listening"

\* C13: the serving process answers every connection from token_lookup as
\* its last successful load left it; a create or rescind that another
\* process makes on the same file changes neither its store nor any answer.
C13_DecidesFromLoaded ==
    last.op \in {"bind", "accepted", "serve", "accept"} \cup AdminOps =>
        /\ tokens = Pre.tokens
        /\ token_lookup = Pre.token_lookup
        /\ last.op = "serve" =>
                last.wrote = serve_connection(Pre, last.conn).wrote

\* C13's case: right after another process rewrote the file, a connection
\* is answered 200 for a secret that the file no longer holds.
C13_Witness ==
    /\ last.op = "serve"
    /\ last.after = "admin_write_file"
    /\ last.wrote = Status200
    /\ LET now == reload_alone(Store(None, None), file) IN
        /\ now.ok
        /\ SecretOf(Sent[FirstStop]) \notin Unwrap(now.self.token_lookup)

----------------------------------------------------------------------------
(* The store's claims on failures, checked under Spec *)

\* C14: on a store that new returned, tokens and token_lookup are never
\* None and contains_token never returns an error, whatever reload, create
\* and rescind calls were made on it and whichever of them failed.
C14_NeverNotLoaded ==
    constructed =>
        /\ tokens # None
        /\ token_lookup # None
        /\ \A s \in SecretInputs : contains_token(Self, s).ok

\* C14's case: a reload of a constructed store has just failed, after a
\* create or a rescind that failed too.
C14_Witness ==
    /\ constructed
    /\ last.op = "reload"
    /\ ~last.ok
    /\ last.after \in {"create", "rescind"}
    /\ Pre.file.kind = "Denied"
    /\ contains_token(Self, "nonexistent_token") = Ok(FALSE)

\* C15 as stated: after a successful new over a path whose parent directory
\* was absent the directory exists, and a create on a fresh label that
\* follows a successful new persists and returns success.
C15_Original ==
    /\ (last.op = "new" /\ last.ok /\ Pre.file.kind = "NoDir") =>
            file.kind # "NoDir"
    /\ (/\ last.op = "create"
        /\ last.after = "new"
        /\ \A t \in PreTokens : t[1] # last.label) => last.ok

----------------------------------------------------------------------------
(* The header scan's claims, checked under SpecConnections *)

\* The header lines that reach the handler of the connection served last, in
\* the order they arrive.
Got == LinesRead(last.conn)
\* The index in Got of the first line that starts with the prefix or is
\* empty, 0 when there is none.
FirstStopRead ==
    IF \E i \in 1..Len(Got) : StartsWithBearer(Got[i]) \/ Got[i] = ""
    THEN CHOOSE i \in 1..Len(Got) :
            /\ StartsWithBearer(Got[i]) \/ Got[i] = ""
            /\ \A j \in 1..(i - 1) : ~StartsWithBearer(Got[j]) /\ Got[j] # ""
    ELSE 0

\* C16: the scan stops at the first line that starts with exactly
\* "Authorization: Bearer ", whose untrimmed remainder is the candidate
\* secret, or at the first empty line or at the end of the input, which
\* give no candidate; a line that differs in case or spacing does not
\* match, and nothing after the first empty line is read, so that the
\* connection is answered 401.
C16_ScanStopsAtFirst ==
    (last.op = "serve" /\ last.conn.set_read_timeout_ok) =>
        /\ (FirstStopRead # 0 /\ StartsWithBearer(Got[FirstStopRead])) =>
                last.auth = Ok(Some(SecretOf(Got[FirstStopRead])))
        /\ (FirstStopRead # 0 /\ Got[FirstStopRead] = "") =>
                /\ last.auth = Ok(None)
                /\ ~last.asked
                /\ last.conn.write_ok => last.wrote = Status401
        /\ (FirstStopRead = 0 /\ last.conn.end = "eof") =>
                /\ last.auth = Ok(None)
                /\ ~last.asked
                /\ last.conn.write_ok => last.wrote = Status401

\* C16's case: a connection has been answered 401 whose first line names
\* the header in another case and is followed by an empty line, or whose
\* bearer line with a secret of token_lookup arrives after an empty line.
C16_Witness ==
    /\ last.op = "serve"
    /\ FirstStopRead > 1
    /\ Got[FirstStopRead] = ""
    /\ \/ \E j \in (FirstStopRead + 1)..Len(Got) :
            /\ StartsWithBearer(Got[j])
            /\ SecretOf(Got[j]) \in Unwrap(token_lookup)
       \/ Got[1] = "authorization: bearer " \o Uuid1 /\ Uuid1 \in Unwrap(token_lookup)
    /\ last.wrote = Status401

----------------------------------------------------------------------------
(* One connection read line by line, with the time it takes *)

\* stream.set_read_timeout(Some(Duration::from_secs(30))).
ReadTimeoutSecs == 30
\* Seconds after which the model stops following a connection.
MaxElapsed == 62

\* Header lines a client sends, line terminator removed.
HeaderLineInputs ==
    {"GET / HTTP/1.1", "Host: mellon", "",
     "Authorization: Bearer " \o Uuid1, "Authorization: Bearer nope"}
\* What a client has sent of a line it never ends.
UnendedInputs ==
    {"Host: mellon", "Authorization: Bearer " \o Uuid1,
     "Authorization: Bearer " \o Uuid1 \o "\r", "Authorization: Bearer nope"}

\* The handler leaves AwaitingHeaders and the connection is closed.
Close(conn) == Turn("serve", conn, listen_turn(Self, Ok(conn)))

\* A second passes while the read waits for bytes.
Tick ==
    /\ server.phase = "AwaitingHeaders"
    /\ server.idle < ReadTimeoutSecs
    /\ server.elapsed < MaxElapsed
    /\ server' = [server EXCEPT !.elapsed = @ + 1, !.idle = @ + 1]
    /\ UNCHANGED <<file, constructed, tokens, token_lookup, last, admins>>

\* Bytes arrive that do not end a line: the read returns them, the next
\* read waits anew for the whole timeout.
BytesArrive ==
    /\ server.phase = "AwaitingHeaders"
    /\ 0 < server.idle \/ ~server.unended
    /\ server.idle < ReadTimeoutSecs
    /\ server' = [server EXCEPT !.idle = 0, !.unended = TRUE]
    /\ UNCHANGED <<file, constructed, tokens, token_lookup, last, admins>>

\* The end of a line arrives, line being the line with the bytes that
\* came before: the body of the loop of extract_auth_token, and what
\* serve_connection does with its result. A line that ends the loop is
\* answered, and write_ok says whether the write of respond succeeds: it
\* fails when the client has reset the connection by then.
LineArrives(line, write_ok) ==
    /\ server.phase = "AwaitingHeaders"
    /\ server.idle < ReadTimeoutSecs
    /\ LET token == strip_prefix(line, "Authorization: Bearer ") IN
        IF token # None \/ line = ""
        THEN Close(Conn(line \o "\r\n", "timeout", TRUE, write_ok))
        ELSE /\ write_ok
             /\ 0 < server.idle \/ server.unended
             /\ server' = [server EXCEPT !.idle = 0, !.unended = FALSE]
             /\ UNCHANGED last
    /\ UNCHANGED <<file, constructed, tokens, token_lookup, admins>>

\* No byte has arrived for the whole timeout: the read fails, and the
\* bytes of a line not ended are lost to the error.
ReadTimesOut ==
    /\ server.phase = "AwaitingHeaders"
    /\ server.idle = ReadTimeoutSecs
    /\ Close(Conn("", "timeout", TRUE, TRUE))
    /\ UNCHANGED <<file, constructed, tokens, token_lookup, admins>>

\* line is what has arrived of a line not ended: nothing, or the bytes
\* that arrived since the last line terminator.
Unended(line) ==
    IF server.unended THEN line \in UnendedInputs ELSE line = ""

\* The client closes the connection: the read gives no byte, lines()
\* yields the bytes of a line not ended as the last line, and the lines
\* end. The connection is answered, and write_ok says whether the write of
\* respond succeeds: it fails when the client has reset the connection
\* after it ended its side.
ClientCloses(line, write_ok) ==
    /\ server.phase = "AwaitingHeaders"
    /\ server.idle < ReadTimeoutSecs
    /\ Unended(line)
    /\ Close(Conn(line, "eof", TRUE, write_ok))
    /\ UNCHANGED <<file, constructed, tokens, token_lookup, admins>>

\* The client resets the connection and the read fails: the bytes of a
\* line not ended are lost to the error, and nothing is answered.
ClientResets(line) ==
    /\ server.phase = "AwaitingHeaders"
    /\ server.idle < ReadTimeoutSecs
    /\ Unended(line)
    /\ Close(Conn(line, "error", TRUE, TRUE))
    /\ UNCHANGED <<file, constructed, tokens, token_lookup, admins>>

NextHeaders ==
    \/ New
    \/ ReloadReads
    \/ \E bound \in BOOLEAN : Bind(bound)
    \/ Connect
    \/ Accept
    \/ Tick
    \/ BytesArrive
    \/ \E line \in HeaderLineInputs, write_ok \in BOOLEAN :
            LineArrives(line, write_ok)
    \/ ReadTimesOut
    \/ \E line \in UnendedInputs \cup {""}, write_ok \in BOOLEAN :
            ClientCloses(line, write_ok)
    \/ \E line \in UnendedInputs \cup {""} : ClientResets(line)

SpecHeaders == Init /\ [][NextHeaders]_vars

\* C17 as stated: the header-scanning phase of a connection is bounded by
\* one overall read deadline, the read timeout: whatever the client sends,
\* the handler has left AwaitingHeaders when that time has passed.
C17_Original ==
    server.phase = "AwaitingHeaders" => server.elapsed <= ReadTimeoutSecs

----------------------------------------------------------------------------
(* Token::from_str and Display on their own *)

\* The characters of the lines and fields tried, and their longest lengths.
Alphabet == {"a", ":", " ", "\f"}
MaxLineLen == 4
MaxFieldLen == 2

RECURSIVE Strings(_)
Strings(n) ==
    IF n = 0 THEN {""}
    ELSE LET shorter == Strings(n - 1) IN
         shorter \cup {s \o c : s \in shorter, c \in Alphabet}

\* A line to parse or a token to display has been chosen.
InitToken ==
    /\ file = File("NotFound", "")
    /\ constructed = FALSE
    /\ tokens = None
    /\ token_lookup = None
    /\ server = NoServer
    /\ admins = NoAdmins
    /\ \/ \E line \in Strings(MaxLineLen) :
            last = [NoCall EXCEPT !.op = "line", !.label = line]
       \/ \E l \in Strings(MaxFieldLen), s \in Strings(MaxFieldLen) :
            last = [NoCall EXCEPT !.op = "token", !.arg = Token(l, s)]

\* line.parse::<Token>() on the line chosen.
Parse ==
    /\ last.op = "line"
    /\ LET r == from_str(last.label) IN
        last' = [last EXCEPT !.op = "from_str", !.ok = r.ok,
                             !.ret = IF r.ok THEN r.val ELSE NoToken,
                             !.after = last.op]
    /\ UNCHANGED <<file, constructed, tokens, token_lookup, server, admins>>

\* token.to_string() on the token chosen or parsed.
Display ==
    /\ \/ last.op = "token"
       \/ last.op = "from_str" /\ last.ok
    /\ LET token == IF last.op = "token" THEN last.arg ELSE last.ret IN
        last' = [last EXCEPT !.op = "fmt", !.arg = token, !.ok = TRUE,
                             !.label = to_string(token), !.ret = NoToken,
                             !.after = last.op]
    /\ UNCHANGED <<file, constructed, tokens, token_lookup, server, admins>>

\* The line displayed is parsed again.
ParseDisplayed ==
    /\ last.op = "fmt"
    /\ LET r == from_str(last.label) IN
        last' = [last EXCEPT !.op = "reparse", !.ok = r.ok,
                             !.ret = IF r.ok THEN r.val ELSE NoToken,
                             !.after = last.op]
    /\ UNCHANGED <<file, constructed, tokens, token_lookup, server, admins>>

NextToken ==
    \/ Parse
    \/ Display
    \/ ParseDisplayed

SpecToken == InitToken /\ [][NextToken]_vars

\* t is s without the whitespace at its two ends.
IsTrimOf(t, s) ==
    /\ Trimmed(t)
    /\ \E i \in 1..(Len(s) + 1) :
        LET j == i + Len(t) - 1 IN
        /\ j <= Len(s)
        /\ SubSeq(s, i, j) = t
        /\ \A k \in (1..(i - 1)) \cup ((j + 1)..Len(s)) :
                SubSeq(s, k, k) \in White_Space

\* C18: parsing fails exactly when the line has no ':'; otherwise the label
\* is the trimmed text before the first ':' and the secret the trimmed text
\* after it, further ':' included. Hence a token whose label has no ':' and
\* whose fields have no surrounding whitespace is parsed back from its
\* display, secrets with ':' included.
C18_SplitsAtFirstColon ==
    /\ last.op \in {"from_str", "reparse"} =>
        /\ last.ok <=> HasChar(last.label, ":")
        /\ last.ok =>
            \E i \in 1..Len(last.label) :
                /\ SubSeq(last.label, i, i) = ":"
                /\ ~HasChar(SubSeq(last.label, 1, i - 1), ":")
                /\ IsTrimOf(last.ret[1], SubSeq(last.label, 1, i - 1))
                /\ IsTrimOf(last.ret[2],
                            SubSeq(last.label, i + 1, Len(last.label)))
    /\ (/\ last.op = "reparse"
        /\ ~HasChar(last.arg[1], ":")
        /\ Trimmed(last.arg[1])
        /\ Trimmed(last.arg[2])) =>
            last.ok /\ last.ret = last.arg

\* C18's case: a token whose secret holds a ':' has been displayed and
\* parsed back.
C18_Witness ==
    /\ last.op = "reparse"
    /\ last.arg = Token("a", ":a")
    /\ last.label = "a::a"
    /\ last.ret = last.arg

----------------------------------------------------------------------------
(* The store's claim on failed mutations, checked under Spec *)

\* C19 as stated: whenever create or rescind returns an error, a failure to
\* write the file included, tokens and token_lookup are what they were
\* before the call.
C19_Original ==
    (last.op \in {"create", "rescind"} /\ ~last.ok) =>
        /\ tokens = Pre.tokens
        /\ token_lookup = Pre.token_lookup

----------------------------------------------------------------------------
(* The claims on processes sharing the file, checked under SpecAdmins *)

\* C20 as stated: when two administrative processes, each with a store of
\* its own on the same file, have each completed a successful create or
\* rescind, on distinct labels, the file reflects both mutations, however
\* their loads and their writes interleave.
C20_Original ==
    (/\ \A p \in AdminProcs : admins[p].pc = "done" /\ admins[p].ok
     /\ admins[1].label # admins[2].label) =>
        /\ OnFile.ok
        /\ \A p \in AdminProcs :
            IF admins[p].command = "add"
            THEN Token(admins[p].label, admins[p].uuid)
                    \in Unwrap(OnFile.self.tokens)
            ELSE \A t \in Unwrap(OnFile.self.tokens) : t[1] # admins[p].label

\* C21 as stated: a load made by one process while another is inside
\* persist_to_file commits the file's tokens as they were before that
\* mutation or as they are after it, never what the file holds between its
\* truncation and the writing of its last line.
C21_Original ==
    \A p \in AdminProcs, q \in AdminProcs :
        (/\ p # q
         /\ admins[p].pc = "writing"
         /\ admins[q].pc = "loaded") =>
            admins[q].self.tokens
                \in {admins[p].pending.before, admins[p].self.tokens}

====
